---- MODULE Spec2Model ----
(***************************************************************************)
(* Model of niimpy/preprocessing/battery.py and                            *)
(* niimpy/preprocessing/screen.py: the shutdown extractor, the timeline    *)
(* merger (util_screen), the transition classifier                         *)
(* (event_classification_screen), the duration calculator                  *)
(* (duration_util_screen) and the window metrics built on them.            *)
(*                                                                         *)
(* A table (pandas DataFrame) is a sequence of rows in positional order;   *)
(* a row is a record of its column values.  datetime is a number of        *)
(* seconds, a Timedelta is a number of seconds.  A call either returns a   *)
(* value or raises: a result is a record whose field err is "ok" or the    *)
(* name of the exception raised.  A cell that may be NaN is a sequence of  *)
(* length 0 (NaN) or 1 (the value).                                        *)
(*                                                                         *)
(* pandas semantics follow the 1.x releases the code was written for:      *)
(* between(..., inclusive=False) excludes both ends, df[col][mask] = v     *)
(* writes through to df, groupby(...).apply adds the group number as an    *)
(* index level when the applied function changes the index.                *)
(***************************************************************************)
EXTENDS Integers, Sequences, FiniteSets, TLC

\* ------------------------------------------------------------------------
\* Bounds of the model
\* ------------------------------------------------------------------------
MaxRows == 3        \* rows of a screen table given to util_screen
MaxBat == 2         \* length of a battery status series
MaxEvents == 5      \* events of a timeline given to the classifier or to a metric
MaxClassified == 4  \* rows of a classified table given to the duration calculator

Users == {1, 2}
Devices == {1, 2}
Statuses == 0 .. 3
Times == {2, 4}        \* datetimes of screen events
BatTimes == {3}        \* datetimes of battery records

\* user 1 owns two devices, user 2 one
Keys == {k \in Users \X Devices : k[1] = 1 \/ k[2] = 1}

NaN == <<>>
Some(v) == <<v>>

Ok(v) == [err |-> "ok", val |-> v]
Raise(e) == [err |-> e, val |-> <<>>]
NoResult == Raise("none")      \* no call made yet

VARIABLES
    pc,      \* where the caller is
    df,      \* the caller's screen table object: [rows, cols, missing]
    df0,     \* the caller's table as it was when the call was made
    bat,     \* the battery table / battery status series passed
    out,     \* what the call returned or raised
    mid,     \* a callee's table at an intermediate line (see each operation)
    out2,    \* what the follow-up call returned or raised
    features,           \* extract_features_screen: the keys of the mapping, in iteration order
    computed_features   \* extract_features_screen: the list of tables computed so far

vars == <<pc, df, df0, bat, out, mid, out2, features, computed_features>>

\* ------------------------------------------------------------------------
\* pandas helpers
\* ------------------------------------------------------------------------
\* the order of sort_values(by=["user","device","datetime"])
KeyLess(a, b) ==
    \/ a.user < b.user
    \/ a.user = b.user /\ a.device < b.device
    \/ a.user = b.user /\ a.device = b.device /\ a.datetime < b.datetime

RECURSIVE InsertSorted(_, _)
InsertSorted(r, s) ==
    IF s = <<>> THEN <<r>>
    ELSE IF KeyLess(r, Head(s)) THEN <<r>> \o s
    ELSE <<Head(s)>> \o InsertSorted(r, Tail(s))

\* stable: a row goes after every row whose key is not greater
RECURSIVE sort_values(_)
sort_values(s) ==
    IF s = <<>> THEN <<>>
    ELSE InsertSorted(s[Len(s)], sort_values(SubSeq(s, 1, Len(s) - 1)))

\* Series.shift(-1) and Series.shift(1): the vacated cell is NaN
shift_back(col) == [i \in 1 .. Len(col) |-> IF i < Len(col) THEN Some(col[i + 1]) ELSE NaN]
shift_fwd(col) == [i \in 1 .. Len(col) |-> IF i > 1 THEN Some(col[i - 1]) ELSE NaN]

fillna0(col) == [i \in 1 .. Len(col) |-> IF col[i] = NaN THEN 0 ELSE col[i][1]]

RECURSIVE SelectIdx(_, _, _)
SelectIdx(s, keep, i) ==
    IF i > Len(s) THEN <<>>
    ELSE (IF keep[i] THEN <<s[i]>> ELSE <<>>) \o SelectIdx(s, keep, i + 1)

\* df[mask]
BoolIndex(s, keep) == SelectIdx(s, keep, 1)


\* ------------------------------------------------------------------------
\* Strings and numbers.  A Python string is the sequence of its characters.
\* ------------------------------------------------------------------------
Digits == <<"0", "1", "2", "3", "4", "5", "6", "7", "8", "9">>

DigitVal(c) == CHOOSE d \in 0 .. 9 : Digits[d + 1] = c

IsDigit(c) == \E d \in 0 .. 9 : Digits[d + 1] = c

\* str(v) of an int
RECURSIVE StrNat(_)
StrNat(n) == IF n < 10 THEN <<Digits[n + 1]>> ELSE StrNat(n \div 10) \o <<Digits[(n % 10) + 1]>>

PyStr(v) == IF v < 0 THEN <<"-">> \o StrNat(0 - v) ELSE StrNat(v)

\* str.isnumeric(): a non-empty string of digits; a sign is not a digit
isnumeric(s) == s # <<>> /\ \A i \in 1 .. Len(s) : IsDigit(s[i])

RECURSIVE ParseNat(_)
ParseNat(s) ==
    IF s = <<>> THEN 0 ELSE 10 * ParseNat(SubSeq(s, 1, Len(s) - 1)) + DigitVal(s[Len(s)])

ParseInt(s) == IF Head(s) = "-" THEN 0 - ParseNat(Tail(s)) ELSE ParseNat(s)

\* pd.to_numeric of a Series: [dtype, vals]; an int64 Series is returned as it is
to_numeric(ser) ==
    IF ser.dtype = "int64" THEN ser
    ELSE [dtype |-> "int64", vals |-> [i \in 1 .. Len(ser.vals) |-> ParseInt(ser.vals[i])]]

\* ------------------------------------------------------------------------
\* battery.py: shutdown_info
\* ------------------------------------------------------------------------
between_left == 0 - 3
between_right == 0

\* Series.between(left, right, inclusive=False) of an int64 Series
between(v) == between_left < v /\ v < between_right

\* battery.py:22-26.  The .str accessor exists only on a Series of strings
\* (AttributeError otherwise); a Series of strings that are all numeric is not
\* converted and its comparison with the ints -3 and 0 raises TypeError.
shutdown_info(battery_status) ==
    IF battery_status.dtype # "object" THEN Raise("AttributeError")
    ELSE IF \A i \in 1 .. Len(battery_status.vals) : isnumeric(battery_status.vals[i])
         THEN Raise("TypeError")
    ELSE LET num == to_numeric(battery_status)
         IN  Ok([dtype |-> "int64",
                 vals |-> BoolIndex(num.vals, [i \in 1 .. Len(num.vals) |-> between(num.vals[i])])])

\* ------------------------------------------------------------------------
\* screen.py: util_screen
\* ------------------------------------------------------------------------
ScreenCols == <<"user", "device", "datetime", "screen_status">>

\* the screen_status column as a Series
StatusCol(t) == [dtype |-> t.dtype, vals |-> [i \in 1 .. Len(t.rows) |-> t.rows[i].screen_status]]

\* df[col_name] = ser
SetStatusCol(t, ser) ==
    [t EXCEPT !.dtype = ser.dtype,
              !.rows = [i \in 1 .. Len(t.rows) |-> [t.rows[i] EXCEPT !.screen_status = ser.vals[i]]]]

\* def shutdown_info(battery_status): one positional parameter (battery.py:7)
shutdown_info_params == 1

\* screen.py:46: b.shutdown_info(bat, feature_functions).  Python binds the
\* arguments before the body runs: a wrong count is a TypeError.  The one
\* argument the function takes is then a DataFrame, which has no .str.
call_shutdown_info(args) ==
    IF Len(args) # shutdown_info_params THEN Raise("TypeError")
    ELSE Raise("AttributeError")

\* the flag left on the row it was computed for, without the lag
MissingFlags_nolag(status) ==
    LET next == shift_back(status)
    IN  [i \in 1 .. Len(status) |->
            IF next[i] # NaN /\ status[i] - next[i][1] = 0 THEN Some(1) ELSE Some(0)]

\* the flag lagged by two rows instead of one
MissingFlags_lag2(status) ==
    LET next == shift_back(status)
        missing == [i \in 1 .. Len(status) |->
                       IF next[i] # NaN /\ status[i] - next[i][1] = 0 THEN 1 ELSE 0]
    IN  shift_fwd(fillna0(shift_fwd(missing)))

\* np.where with its two values swapped
MissingFlags_swapped(status) ==
    LET next == shift_back(status)
        missing == [i \in 1 .. Len(status) |->
                       IF next[i] # NaN /\ status[i] - next[i][1] = 0 THEN 0 ELSE 1]
    IN  shift_fwd(missing)

\* screen.py:58-62: the 'missing' column after the shift, before fillna
MissingFlags(status) ==
    LET next == shift_back(status)
        dummy == [i \in 1 .. Len(status) |->
                     IF next[i] = NaN THEN NaN ELSE Some(status[i] - next[i][1])]
        missing == [i \in 1 .. Len(status) |-> IF dummy[i] = Some(0) THEN 1 ELSE 0]
    IN  shift_fwd(missing)

\* screen.py:42-68.  t is the caller's table object, b the battery table.
\* Returns what the call returns or raises (ret) and the caller's object as
\* the call leaves it (caller): lines 42, 55 and 58-64 work on the object
\* passed in, line 66 rebinds the local name to a new table.
util_screen(t, b) ==
    LET t42 == SetStatusCol(t, to_numeric(StatusCol(t)))
        shutdown == call_shutdown_info(<<b, "feature_functions">>)
    IN  IF b # <<>> /\ shutdown.err # "ok"
        THEN [ret |-> Raise(shutdown.err), caller |-> t42]
        ELSE LET sorted == sort_values(t42.rows)
                 missing == fillna0(MissingFlags([i \in 1 .. Len(sorted) |-> sorted[i].screen_status]))
                 t64 == [t42 EXCEPT !.rows = sorted,
                                    !.cols = IF \E k \in 1 .. Len(t42.cols) : t42.cols[k] = "missing"
                                             THEN t42.cols ELSE t42.cols \o <<"missing">>,
                                    !.missing = missing]
                 kept == BoolIndex(sorted, [i \in 1 .. Len(sorted) |-> missing[i] = 0])
             IN  [ret |-> Ok([dtype |-> t42.dtype, rows |-> kept, cols |-> t42.cols, missing |-> <<>>]),
                  caller |-> t64]

\* ------------------------------------------------------------------------
\* screen.py: event_classification_screen
\* ------------------------------------------------------------------------
\* A table with its index: [rows, levels], levels the number of index levels.

DropLast(s) == IF s = <<>> THEN <<>> ELSE SubSeq(s, 1, Len(s) - 1)
DropFirst(s) == IF s = <<>> THEN <<>> ELSE Tail(s)

\* x.iloc[:-1] and x.iloc[1:]
iloc(s, slice) == IF slice = "[:-1]" THEN DropLast(s) ELSE DropFirst(s)

RowsOf(rows, u) == SelectSeq(rows, LAMBDA r : r.user = u)

\* the groups of groupby("user"), in the order of the user
RECURSIVE Groups(_, _)
Groups(us, rows) ==
    IF us = {} THEN <<>>
    ELSE LET u == CHOOSE x \in us : \A y \in us : x <= y
         IN  <<RowsOf(rows, u)>> \o Groups(us \ {u}, rows)

RECURSIVE Concat(_)
Concat(ss) == IF ss = <<>> THEN <<>> ELSE Head(ss) \o Concat(Tail(ss))

\* df.groupby("user", as_index=False).apply(lambda x: x.iloc<slice>), which
\* drops a row of each group: the group number becomes a new outer index level.  A table
\* without rows has no group: the result is an empty table with a plain
\* one-level index.
groupby_apply(t, slice) ==
    IF t.rows = <<>> THEN [rows |-> <<>>, levels |-> 1]
    ELSE LET g == Groups({t.rows[i].user : i \in 1 .. Len(t.rows)}, t.rows)
         IN  [rows |-> Concat([k \in 1 .. Len(g) |-> iloc(g[k], slice)]), levels |-> t.levels + 1]

\* df.droplevel(0): ValueError when the index has one level only
droplevel(t) ==
    IF t.levels <= 1 THEN Raise("ValueError") ELSE Ok([t EXCEPT !.levels = @ - 1])

\* screen.py:106: str(int(status)) + str(int(next status, 0 for the last row))
PairCodes(status) ==
    LET nxt == fillna0(shift_back(status))
    IN  [i \in 1 .. Len(status) |-> PyStr(status[i]) \o PyStr(nxt[i])]

UseCodes_mut == {<<"3", "0">>, <<"3", "2">>}
UseCodes == {<<"3", "0">>, <<"3", "1">>, <<"3", "2">>}
OnCodes_mut == {<<"1", "0">>, <<"1", "2">>, <<"1", "3">>, <<"2", "1">>}
OnCodes == {<<"1", "0">>, <<"1", "2">>, <<"1", "3">>, <<"2", "0">>}
NaCodes_mut == {<<"2", "1">>}
NaCodes == {<<"2", "1">>, <<"2", "3">>}
OffCodes == {<<"0", "1">>, <<"0", "2">>, <<"0", "3">>}

Flag(code, codes) == IF code \in codes THEN 1 ELSE 0

\* screen.py:109-114: the row with its four flags
Labelled(r) ==
    [user |-> r.user, device |-> r.device, datetime |-> r.datetime,
     screen_status |-> r.screen_status, next |-> r.next,
     use |-> Flag(r.next, UseCodes), on |-> Flag(r.next, OnCodes),
     na |-> Flag(r.next, NaCodes), off |-> Flag(r.next, OffCodes)]

\* screen.py:116: drop(columns=["next", col_name])
Classified(r) ==
    [user |-> r.user, device |-> r.device, datetime |-> r.datetime,
     use |-> r.use, on |-> r.on, na |-> r.na, off |-> r.off]

\* screen.py:104-124.  rows: the rows of the table passed (int64 statuses).
\* Returns what the call returns or raises (ret) and the table as it is
\* after line 114, before the columns are dropped and the rows trimmed
\* (labelled; empty when the call raised before).
event_classification_screen(rows) ==
    LET sorted == sort_values(rows)
        code == PairCodes([i \in 1 .. Len(sorted) |-> sorted[i].screen_status])
        t106 == [rows |-> [i \in 1 .. Len(sorted) |->
                              [user |-> sorted[i].user, device |-> sorted[i].device,
                               datetime |-> sorted[i].datetime,
                               screen_status |-> sorted[i].screen_status, next |-> code[i]]],
                 levels |-> 1]
        t107 == groupby_apply(t106, "[:-1]")
        t108 == droplevel(t107)
    IN  IF t108.err # "ok" THEN [ret |-> Raise(t108.err), labelled |-> <<>>]
        ELSE LET lab == [i \in 1 .. Len(t108.val.rows) |-> Labelled(t108.val.rows[i])]
                 t116 == [rows |-> [i \in 1 .. Len(lab) |-> Classified(lab[i])],
                          levels |-> t108.val.levels]
                 t120 == groupby_apply(t116, "[1:]")
                 t121 == groupby_apply(t120, "[:-1]")
                 t122 == droplevel(t121)
             IN  IF t122.err # "ok" THEN [ret |-> Raise(t122.err), labelled |-> lab]
                 ELSE LET t123 == droplevel(t122.val)
                      IN  IF t123.err # "ok" THEN [ret |-> Raise(t123.err), labelled |-> lab]
                          ELSE [ret |-> Ok(t123.val.rows), labelled |-> lab]

\* ------------------------------------------------------------------------
\* screen.py: duration_util_screen
\* ------------------------------------------------------------------------
\* pd.Timedelta('10 hours') in seconds
thr_hours == 10
thr == thr_hours * 60 * 60

\* screen.py:145-146: datetime.diff() shifted back by one row
Durations(dt) ==
    LET diff == [i \in 1 .. Len(dt) |-> IF i = 1 THEN NaN ELSE Some(dt[i] - dt[i - 1])]
    IN  [i \in 1 .. Len(dt) |-> IF i < Len(dt) THEN diff[i + 1] ELSE NaN]

LongerThanThr_mut(d) == d # NaN /\ d[1] >= thr

\* duration > thr; a comparison with NaT is False
LongerThanThr(d) == d # NaN /\ d[1] > thr

\* screen.py:155-156: the rows the two threshold filters keep
KeptByFilter(r) ==
    /\ ~(r.on = 1 /\ LongerThanThr(r.duration))
    /\ ~(r.use = 1 /\ LongerThanThr(r.duration))

\* Series.dt.total_seconds(): a Timedelta is a number of seconds here
total_seconds(d) == d

\* screen.py:143-159.  rows: the rows of the classified table passed.
\* Returns what the call returns or raises (ret) and the rows as they are
\* after line 150, before the threshold filters (trimmed).
duration_util_screen(rows) ==
    LET sorted == sort_values(rows)
        dur == Durations([i \in 1 .. Len(sorted) |-> sorted[i].datetime])
        t146 == [rows |-> [i \in 1 .. Len(sorted) |->
                              [user |-> sorted[i].user, device |-> sorted[i].device,
                               datetime |-> sorted[i].datetime,
                               use |-> sorted[i].use, on |-> sorted[i].on,
                               na |-> sorted[i].na, off |-> sorted[i].off,
                               duration |-> dur[i]]],
                 levels |-> 1]
        t149 == groupby_apply(t146, "[:-1]")
        t150 == droplevel(t149)
    IN  IF t150.err # "ok" THEN [ret |-> Raise(t150.err), trimmed |-> <<>>]
        ELSE LET kept == SelectSeq(t150.val.rows, KeptByFilter)
             IN  [ret |-> Ok([i \in 1 .. Len(kept) |->
                                 [kept[i] EXCEPT !.duration = total_seconds(@)]]),
                  trimmed |-> t150.val.rows]

\* ------------------------------------------------------------------------
\* screen.py: the window metrics screen_count and screen_duration
\* ------------------------------------------------------------------------
\* feature_functions["resample_args"] = {"rule": "30T"}: windows of 30 minutes
resample_minutes == 30
Window(dt) == dt \div (resample_minutes * 60)

RECURSIVE SumOf(_, _)
SumOf(rows, col) ==
    IF rows = <<>> THEN 0
    ELSE (IF Head(rows)[col] = NaN THEN 0 ELSE Head(rows)[col][1]) + SumOf(Tail(rows), col)

\* rows.groupby("user")[col].resample(rule).sum(): one entry per user and per
\* window from the user's first to the user's last, the sum of col in it
ResampleSum(rows, col) ==
    LET us == {rows[i].user : i \in 1 .. Len(rows)}
        W(u) == {Window(rows[i].datetime) : i \in {j \in 1 .. Len(rows) : rows[j].user = u}}
        First(u) == CHOOSE w \in W(u) : \A x \in W(u) : w <= x
        Last(u) == CHOOSE w \in W(u) : \A x \in W(u) : x <= w
    IN  UNION {{[user |-> u, window |-> w,
                 sum |-> SumOf(SelectSeq(rows, LAMBDA r : r.user = u /\ Window(r.datetime) = w), col)] :
                   w \in First(u) .. Last(u)} : u \in us}

\* a flag column as cells that SumOf adds up
FlagCells(rows) ==
    [i \in 1 .. Len(rows) |->
        [rows[i] EXCEPT !.on = Some(@), !.off = Some(@), !.use = Some(@)]]

\* the stages a metric has run: what each returned or raised
NoStages == [merged |-> NoResult, classified |-> NoResult, durations |-> NoResult]

\* screen.py:236-247.  t: the caller's table object, b: the battery table.
\* result is bound only under len(df2) > 0: the return of an unbound local
\* raises UnboundLocalError.
screen_count(t, b) ==
    LET m == util_screen(t, b)
        c == event_classification_screen(m.ret.val.rows).ret
    IN  IF m.ret.err # "ok"
        THEN [ret |-> Raise(m.ret.err), caller |-> m.caller,
              stages |-> [NoStages EXCEPT !.merged = m.ret]]
        ELSE [ret |-> IF c.err # "ok" THEN Raise(c.err)
                      ELSE IF Len(c.val) > 0
                           THEN Ok([screen_on_count |-> ResampleSum(FlagCells(c.val), "on"),
                                    screen_off_count |-> ResampleSum(FlagCells(c.val), "off"),
                                    screen_use_count |-> ResampleSum(FlagCells(c.val), "use")])
                           ELSE Raise("UnboundLocalError"),
              caller |-> m.caller,
              stages |-> [NoStages EXCEPT !.merged = m.ret, !.classified = c]]

\* screen.py:285-297
screen_duration(t, b) ==
    LET m == util_screen(t, b)
        c == event_classification_screen(m.ret.val.rows).ret
        d == duration_util_screen(c.val).ret
    IN  IF m.ret.err # "ok"
        THEN [ret |-> Raise(m.ret.err), caller |-> m.caller,
              stages |-> [NoStages EXCEPT !.merged = m.ret]]
        ELSE IF c.err # "ok"
        THEN [ret |-> Raise(c.err), caller |-> m.caller,
              stages |-> [NoStages EXCEPT !.merged = m.ret, !.classified = c]]
        ELSE [ret |-> IF d.err # "ok" THEN Raise(d.err)
                      ELSE IF Len(d.val) > 0
                           THEN Ok([screen_on_durationtotal |->
                                        ResampleSum(SelectSeq(d.val, LAMBDA r : r.on = 1), "duration"),
                                    screen_off_durationtotal |->
                                        ResampleSum(SelectSeq(d.val, LAMBDA r : r.off = 1), "duration"),
                                    screen_use_durationtotal |->
                                        ResampleSum(SelectSeq(d.val, LAMBDA r : r.use = 1), "duration")])
                           ELSE Raise("UnboundLocalError"),
              caller |-> m.caller,
              stages |-> [merged |-> m.ret, classified |-> c, durations |-> d]]

\* ------------------------------------------------------------------------
\* The caller of shutdown_info: builds a battery status Series and calls
\* ------------------------------------------------------------------------
BatVals == (0 - 4) .. 2

SeqsUpTo(S, n) == UNION {[1 .. k -> S] : k \in 1 .. n}

BatSeries ==
    {[dtype |-> "int64", vals |-> v] : v \in SeqsUpTo(BatVals, MaxBat)}
    \cup {[dtype |-> "object", vals |-> [i \in 1 .. Len(v) |-> PyStr(v[i])]] : v \in SeqsUpTo(BatVals, MaxBat)}

NoTable == [dtype |-> "int64", rows |-> <<>>, cols |-> ScreenCols, missing |-> <<>>]

InitShutdown ==
    /\ pc = "series"
    /\ bat \in BatSeries
    /\ df = NoTable /\ df0 = NoTable
    /\ out = NoResult /\ out2 = NoResult /\ mid = <<>>
    /\ features = <<>> /\ computed_features = <<>>

CallShutdownInfo ==
    /\ pc = "series"
    /\ out' = shutdown_info(bat)
    /\ pc' = "shutdown_done"
    /\ UNCHANGED <<df, df0, bat, mid, out2, features, computed_features>>

NextShutdown == CallShutdownInfo

SpecShutdown == InitShutdown /\ [][NextShutdown]_vars

\* ------------------------------------------------------------------------
\* The caller of util_screen: builds a screen table row by row, calls
\* util_screen with it and a battery table, and calls util_screen again on
\* what it got back
\* ------------------------------------------------------------------------
Cell(dtype, v) == IF dtype = "object" THEN PyStr(v) ELSE v

ScreenRow(k, tm, v) == [user |-> k[1], device |-> k[2], datetime |-> tm, screen_status |-> v]

\* battery tables passed to util_screen: empty, or one record of device 1 of user 1
BatTables ==
    {<<>>} \cup {<<[user |-> 1, device |-> 1, datetime |-> tm, battery_status |-> v]>> :
                    tm \in BatTimes, v \in {0 - 2, 0 - 1}}

InitMerge ==
    /\ pc = "build"
    /\ df = NoTable
    /\ df0 = NoTable
    /\ bat = <<>>
    /\ out = NoResult /\ out2 = NoResult /\ mid = <<>>
    /\ features = <<>> /\ computed_features = <<>>

AddScreenRow ==
    /\ pc = "build"
    /\ Len(df.rows) < MaxRows
    /\ \E k \in Keys, tm \in Times, v \in Statuses :
          df' = [df EXCEPT !.rows = Append(@, ScreenRow(k, tm, Cell(df.dtype, v)))]
    /\ UNCHANGED <<pc, df0, bat, out, mid, out2, features, computed_features>>

\* util_screen(df, bat, {}) with the battery table b
UtilScreenWith(b) ==
    LET r == util_screen(df, b)
    IN  /\ bat' = b
        /\ out' = r.ret
        /\ df' = r.caller
        /\ df0' = df
        /\ pc' = "merged"
        /\ UNCHANGED <<mid, out2, features, computed_features>>

\* a caller without battery data
CallUtilScreen ==
    /\ pc = "build"
    /\ df.rows # <<>>
    /\ UtilScreenWith(<<>>)

\* util_screen(util_screen(T)) with an empty battery table
CallUtilScreenAgain ==
    /\ pc = "merged"
    /\ out.err = "ok"
    /\ out2' = util_screen(out.val, <<>>).ret
    /\ pc' = "remerged"
    /\ UNCHANGED <<df, df0, bat, out, mid, features, computed_features>>

NextMerge == AddScreenRow \/ CallUtilScreen \/ CallUtilScreenAgain

SpecMerge == InitMerge /\ [][NextMerge]_vars

\* a caller with a battery table, and screen statuses stored as numbers or
\* as strings
InitMergeBat ==
    /\ pc = "build"
    /\ df \in {[NoTable EXCEPT !.dtype = d] : d \in {"int64", "object"}}
    /\ df0 = NoTable
    /\ bat = <<>>
    /\ out = NoResult /\ out2 = NoResult /\ mid = <<>>
    /\ features = <<>> /\ computed_features = <<>>

CallUtilScreenBat ==
    /\ pc = "build"
    /\ df.rows # <<>>
    /\ \E b \in BatTables : UtilScreenWith(b)

NextMergeBat == AddScreenRow \/ CallUtilScreenBat

SpecMergeBat == InitMergeBat /\ [][NextMergeBat]_vars

\* ------------------------------------------------------------------------
\* The caller of the classifier and of the metrics: records one event after
\* the other, the i-th at EventTimes[i], for either user
\* ------------------------------------------------------------------------
EventTimes == <<0, 5, 20, 600, 4000, 4010, 8000, 8010>>

InitEvents ==
    /\ pc = "build"
    /\ df = NoTable
    /\ df0 = NoTable
    /\ bat = <<>>
    /\ out = NoResult /\ out2 = NoResult /\ mid = <<>>
    /\ features = <<>> /\ computed_features = <<>>

AddEvent ==
    /\ pc = "build"
    /\ Len(df.rows) < MaxEvents
    /\ \E u \in Users, v \in Statuses :
          df' = [df EXCEPT !.rows = Append(@, ScreenRow(<<u, 1>>, EventTimes[Len(df.rows) + 1], v))]
    /\ UNCHANGED <<pc, df0, bat, out, mid, out2, features, computed_features>>

\* event_classification_screen(df, {}) on the table as recorded
CallClassifier ==
    /\ pc = "build"
    /\ df.rows # <<>>
    /\ LET r == event_classification_screen(df.rows)
       IN  /\ out' = r.ret
           /\ mid' = r.labelled
    /\ df0' = df
    /\ pc' = "classified"
    /\ UNCHANGED <<df, bat, out2, features, computed_features>>

NextClassify == AddEvent \/ CallClassifier

SpecClassify == InitEvents /\ [][NextClassify]_vars

\* screen_count(df, bat, {}) and screen_duration(df, bat, {}) on the table as
\* recorded, without battery data
CallMetric(r) ==
    /\ out' = r.ret
    /\ mid' = r.stages
    /\ df' = r.caller
    /\ df0' = df
    /\ UNCHANGED <<bat, out2, features, computed_features>>

CallScreenCount ==
    /\ pc = "build"
    /\ df.rows # <<>>
    /\ \E r \in {screen_count(df, <<>>)} : CallMetric(r)
    /\ pc' = "count_done"

CallScreenDuration ==
    /\ pc = "build"
    /\ df.rows # <<>>
    /\ \E r \in {screen_duration(df, <<>>)} : CallMetric(r)
    /\ pc' = "duration_done"

\* a caller of screen_duration: merger, classifier and duration calculator
\* in a row
NextPipeline == AddEvent \/ CallScreenDuration

SpecPipeline == InitEvents /\ [][NextPipeline]_vars

\* a caller of either metric
NextMetrics == AddEvent \/ CallScreenCount \/ CallScreenDuration

SpecMetrics == InitEvents /\ [][NextMetrics]_vars

\* ------------------------------------------------------------------------
\* The caller of duration_util_screen: a classified table, the i-th row at
\* ClassifiedHours[i] hours, for either user, with one flag set or none
\* ------------------------------------------------------------------------
ClassifiedHours == <<0, 9, 19, 30, 39, 49>>

FlagNames == {"on", "off", "use", "na", "none"}

ClassifiedRow(u, h, f) ==
    [user |-> u, device |-> 1, datetime |-> h * 60 * 60,
     use |-> IF f = "use" THEN 1 ELSE 0, on |-> IF f = "on" THEN 1 ELSE 0,
     na |-> IF f = "na" THEN 1 ELSE 0, off |-> IF f = "off" THEN 1 ELSE 0]

InitDuration ==
    /\ pc = "build"
    /\ df = [NoTable EXCEPT !.cols = <<"user", "device", "datetime", "use", "on", "na", "off">>]
    /\ df0 = NoTable
    /\ bat = <<>>
    /\ out = NoResult /\ out2 = NoResult /\ mid = <<>>
    /\ features = <<>> /\ computed_features = <<>>

AddClassifiedRow ==
    /\ pc = "build"
    /\ Len(df.rows) < MaxClassified
    /\ \E u \in Users, f \in FlagNames :
          df' = [df EXCEPT !.rows = Append(@, ClassifiedRow(u, ClassifiedHours[Len(df.rows) + 1], f))]
    /\ UNCHANGED <<pc, df0, bat, out, mid, out2, features, computed_features>>

\* duration_util_screen(df) on the table as built
CallDurationUtil ==
    /\ pc = "build"
    /\ df.rows # <<>>
    /\ LET r == duration_util_screen(df.rows)
       IN  /\ out' = r.ret
           /\ mid' = r.trimmed
    /\ df0' = df
    /\ pc' = "durations"
    /\ UNCHANGED <<df, bat, out2, features, computed_features>>

NextDuration == AddClassifiedRow \/ CallDurationUtil

SpecDuration == InitDuration /\ [][NextDuration]_vars

\* a caller whose users have events of more than one device: the i-th row at
\* ClassifiedHours[i] hours, of any device of any user, flagged on or off
DeviceRow(k, h, f) == [ClassifiedRow(k[1], h, f) EXCEPT !.device = k[2]]

AddDeviceRow ==
    /\ pc = "build"
    /\ Len(df.rows) < MaxClassified
    /\ \E k \in Keys, f \in {"on", "off"} :
          df' = [df EXCEPT !.rows = Append(@, DeviceRow(k, ClassifiedHours[Len(df.rows) + 1], f))]
    /\ UNCHANGED <<pc, df0, bat, out, mid, out2, features, computed_features>>

NextDurationDevices == AddDeviceRow \/ CallDurationUtil

SpecDurationDevices == InitDuration /\ [][NextDurationDevices]_vars

\* ------------------------------------------------------------------------
\* screen.py: extract_features_screen, and its caller: records the events of
\* one user, the i-th at EventTimes[i], and asks for a selection of metrics
\* ------------------------------------------------------------------------
MaxFeatures == 2    \* keys of a selection mapping

\* screen.py:588-589: the registry, the functions named screen_* in the order
\* of their definition (the two metrics of this model)
ALL_FEATURE_FUNCTIONS == <<"screen_count", "screen_duration">>

\* what a caller may use as a key: a registered function, or the name of a
\* metric that does not exist (a string)
FeatureKeys == {"screen_count", "screen_duration", "screen_sum"}

\* features=None, the default
None == <<"None">>

\* the selection mappings: the keys in iteration order, no key twice
Mappings ==
    {f \in UNION {[1 .. n -> FeatureKeys] : n \in 0 .. MaxFeatures} :
        \A i, j \in 1 .. Len(f) : f[i] = f[j] => i = j}

\* screen.py:624: feature(df, bat, feature_arg).  A key that is a string is
\* not callable: the call raises TypeError.
call_feature(feature, t, b) ==
    IF feature = "screen_count" THEN screen_count(t, b)
    ELSE IF feature = "screen_duration" THEN screen_duration(t, b)
    ELSE [ret |-> Raise("TypeError"), caller |-> t, stages |-> NoStages]

\* screen.py:627: pd.concat(computed_features, axis=1), the tables side by
\* side; ValueError for a list without tables
concat(frames) == IF frames = <<>> THEN Raise("ValueError") ELSE Ok(frames)

InitDispatch ==
    /\ pc = "build"
    /\ df = NoTable
    /\ df0 = NoTable
    /\ bat = <<>>
    /\ out = NoResult /\ out2 = NoResult /\ mid = <<>>
    /\ features = <<>> /\ computed_features = <<>>

RecordEvent ==
    /\ pc = "build"
    /\ Len(df.rows) < MaxEvents
    /\ \E v \in Statuses :
          df' = [df EXCEPT !.rows = Append(@, ScreenRow(<<1, 1>>, EventTimes[Len(df.rows) + 1], v))]
    /\ UNCHANGED <<pc, df0, bat, out, mid, out2, features, computed_features>>

\* screen.py:614-621: extract_features_screen(df, bat, f) up to the loop
EnterExtractFeatures ==
    /\ pc = "build"
    /\ df.rows # <<>>
    /\ \E f \in Mappings \cup {None} :
          features' = IF f = None THEN ALL_FEATURE_FUNCTIONS ELSE f
    /\ computed_features' = <<>>
    /\ df0' = df
    /\ pc' = "loop"
    /\ UNCHANGED <<df, bat, out, mid, out2>>

\* screen.py:622-625: one turn of the loop, for the next key of the mapping.
\* An exception of the call leaves the function.
ComputeFeature ==
    /\ pc = "loop"
    /\ Len(computed_features) < Len(features)
    /\ \E r \in {call_feature(features[Len(computed_features) + 1], df, bat)} :
          /\ df' = r.caller
          /\ computed_features' = IF r.ret.err = "ok" THEN Append(computed_features, r.ret.val)
                                  ELSE computed_features
          /\ out' = IF r.ret.err = "ok" THEN out ELSE Raise(r.ret.err)
          /\ pc' = IF r.ret.err = "ok" THEN "loop" ELSE "dispatch_done"
    /\ UNCHANGED <<df0, bat, mid, out2, features>>

\* screen.py:627-629: after the last key
ConcatAndReturn ==
    /\ pc = "loop"
    /\ Len(computed_features) = Len(features)
    /\ out' = concat(computed_features)
    /\ pc' = "dispatch_done"
    /\ UNCHANGED <<df, df0, bat, mid, out2, features, computed_features>>

NextDispatch == RecordEvent \/ EnterExtractFeatures \/ ComputeFeature \/ ConcatAndReturn

SpecDispatch == InitDispatch /\ [][NextDispatch]_vars

\* ========================================================================
\* Properties
\* ========================================================================
Returned(p) == pc = p /\ out.err = "ok"

\* ---- C2 (SpecShutdown) -------------------------------------------------
\* the numbers a battery status Series holds, whatever it stores them as
NumbersOf(ser) ==
    [i \in 1 .. Len(ser.vals) |-> IF ser.dtype = "object" THEN ParseInt(ser.vals[i]) ELSE ser.vals[i]]

IsShutdownValue(v) == v \in {0 - 2, 0 - 1}

\* C2: for every battery status Series, of numbers or of numeric-like
\* strings, shutdown_info returns the records whose value v has -3 < v < 0,
\* and no other, in their order.
C2_ShutdownSubset ==
    pc = "shutdown_done" =>
        /\ out.err = "ok"
        /\ out.val.vals = SelectSeq(NumbersOf(bat), IsShutdownValue)

\* ---- C3 (SpecMergeBat) -------------------------------------------------
NumStatus(t, i) == to_numeric(StatusCol(t)).vals[i]

\* a shutdown record of bat lies between the screen events i and j of t:
\* same user and device, both statuses non-zero
ShutdownBetween(t, b, i, j) ==
    /\ b # <<>>
    /\ IsShutdownValue(b[1].battery_status)
    /\ t.rows[i].user = b[1].user /\ t.rows[j].user = b[1].user
    /\ t.rows[i].device = b[1].device /\ t.rows[j].device = b[1].device
    /\ t.rows[i].datetime < b[1].datetime /\ b[1].datetime < t.rows[j].datetime
    /\ NumStatus(t, i) # 0 /\ NumStatus(t, j) # 0

\* C3: with a shutdown record between two screen events of non-zero status,
\* util_screen returns, and its table has a row of status 0 at the time of
\* the shutdown, after the earlier and before the later event.
C3_ShutdownRowInserted ==
    pc = "merged" =>
        \A i, j \in 1 .. Len(df0.rows) :
            ShutdownBetween(df0, bat, i, j) =>
                /\ out.err = "ok"
                /\ \E k \in 1 .. Len(out.val.rows) :
                      /\ out.val.rows[k].screen_status = 0
                      /\ out.val.rows[k].datetime = bat[1].datetime
                      /\ \E a \in 1 .. k - 1 : out.val.rows[a].datetime = df0.rows[i].datetime
                      /\ \E c \in k + 1 .. Len(out.val.rows) :
                            out.val.rows[c].datetime = df0.rows[j].datetime

\* ---- C4 (SpecMerge) ----------------------------------------------------
\* C4: in the table util_screen returns, no two adjacent rows of the same
\* user have the same status.
C4_NoAdjacentEqual ==
    Returned("merged") =>
        \A i \in 1 .. Len(out.val.rows) - 1 :
            out.val.rows[i].user = out.val.rows[i + 1].user =>
                out.val.rows[i].screen_status # out.val.rows[i + 1].screen_status

\* a run of three identical readings of one user went in, one row came out
C4_Witness ==
    /\ Returned("merged")
    /\ Len(df0.rows) = 3
    /\ \A i \in 1 .. 3 : df0.rows[i].user = 1 /\ df0.rows[i].screen_status = 2
    /\ Len(out.val.rows) = 1

\* ---- C5 (SpecMerge) ----------------------------------------------------
\* C5: util_screen applied to the table util_screen returned returns the
\* same rows in the same order, under the same columns.
C5_Idempotent ==
    pc = "remerged" =>
        /\ out2.err = "ok"
        /\ out2.val.rows = out.val.rows
        /\ out2.val.cols = out.val.cols

\* the first run reordered and dropped rows, two rows are left for the second
C5_Witness ==
    /\ pc = "remerged"
    /\ Len(df0.rows) = 3
    /\ Len(out.val.rows) = 2
    /\ out.val.rows[1] # df0.rows[1]
    /\ out2.err = "ok"

\* ---- C10 (SpecMergeBat) ------------------------------------------------
\* C10: after a call of util_screen the caller's screen table has the rows,
\* the row order and the columns it had before the call.
C10_CallerTableUntouched ==
    pc = "merged" =>
        /\ df.rows = df0.rows
        /\ df.cols = df0.cols
        /\ df.dtype = df0.dtype

\* ---- C1 (SpecClassify) -------------------------------------------------
\* the events given to the classifier, per user in chronological order
Sorted0 == sort_values(df0.rows)

\* the flag the pair-code table gives the pair (current, next)
TableFlag(c, n) ==
    IF c = 3 /\ n \in {0, 1, 2} THEN "use"
    ELSE IF (c = 1 /\ n \in {0, 2, 3}) \/ (c = 2 /\ n = 0) THEN "on"
    ELSE IF c = 2 /\ n \in {1, 3} THEN "na"
    ELSE IF c = 0 /\ n \in {1, 2, 3} THEN "off"
    ELSE "none"

HasFlag(r, f) ==
    /\ r.use = (IF f = "use" THEN 1 ELSE 0)
    /\ r.on = (IF f = "on" THEN 1 ELSE 0)
    /\ r.na = (IF f = "na" THEN 1 ELSE 0)
    /\ r.off = (IF f = "off" THEN 1 ELSE 0)

\* r is the row of the i-th event of s, flagged as the table says for the
\* pair of that event and the next
RowOfPair(r, s, i) ==
    /\ r.user = s[i].user
    /\ r.datetime = s[i].datetime
    /\ HasFlag(r, TableFlag(s[i].screen_status, s[i + 1].screen_status))

IntraUserPairs(s) == {i \in 1 .. Len(s) - 1 : s[i].user = s[i + 1].user}

TenHours == 10 * 60 * 60

\* the row r of the table before the filter is not in the table returned
Removed(r) == \A k \in 1 .. Len(out.val) : out.val[k].datetime # r.datetime

\* C6: the threshold filter removes a row if and only if its flag on or use
\* is set and its duration is more than 10 hours.
C6_ThresholdFilter ==
    Returned("durations") =>
        \A k \in 1 .. Len(mid) :
            Removed(mid[k]) <=>
                /\ mid[k].on = 1 \/ mid[k].use = 1
                /\ mid[k].duration # NaN
                /\ mid[k].duration[1] > TenHours

\* an 'on' row of 11 hours removed, an 'on' row of exactly 10 hours kept
C6_Witness ==
    /\ Returned("durations")
    /\ \E k \in 1 .. Len(mid) :
          mid[k].on = 1 /\ mid[k].duration = Some(11 * 60 * 60) /\ Removed(mid[k])
    /\ \E k \in 1 .. Len(mid) :
          mid[k].on = 1 /\ mid[k].duration = Some(TenHours) /\ ~Removed(mid[k])

\* ---- C7 (SpecPipeline) -------------------------------------------------
Scenario ==
    <<ScreenRow(<<1, 1>>, 0, 1), ScreenRow(<<1, 1>>, 5, 3),
      ScreenRow(<<1, 1>>, 20, 1), ScreenRow(<<1, 1>>, 600, 0)>>

ScenarioRun == pc = "duration_done" /\ df0.rows = Scenario

UseRowAt5 == [user |-> 1, device |-> 1, datetime |-> 5, use |-> 1, on |-> 0, na |-> 0, off |-> 0]

\* C7 as stated: for the events (0,1), (5,3), (20,1), (600,0) of one user the
\* duration calculator returns exactly the event at t=5, flagged use, with
\* duration 15.
C7_RowWithDuration15 ==
    ScenarioRun =>
        /\ mid.durations.err = "ok"
        /\ Len(mid.durations.val) = 1
        /\ mid.durations.val[1].datetime = 5
        /\ mid.durations.val[1].use = 1
        /\ mid.durations.val[1].duration = Some(15)

\* C7 as amended: for these events the classifier returns exactly the event
\* at t=5, flagged use; the duration calculator drops it as the last row of
\* its user and returns a table without rows.
C7_RowDroppedAsLast ==
    ScenarioRun =>
        /\ mid.merged.err = "ok" /\ Len(mid.merged.val.rows) = 4
        /\ mid.classified = Ok(<<UseRowAt5>>)
        /\ mid.durations = Ok(<<>>)

C7_Witness == ScenarioRun /\ mid.classified.err = "ok" /\ Len(mid.classified.val) = 1

\* ---- C8 (SpecClassify) -------------------------------------------------
EventsOf(u) == SelectSeq(Sorted0, LAMBDA r : r.user = u)

\* a user's events without the first and the last two
Inner(s) == IF Len(s) <= 3 THEN <<>> ELSE SubSeq(s, 2, Len(s) - 2)

DatetimesOf(s) == [i \in 1 .. Len(s) |-> s[i].datetime]

\* C8: the classifier returns, for every user with n events, max(0, n-3)
\* rows: the user's events but the first and the last two, in their order.
C8_BoundaryTrimming ==
    pc = "classified" =>
        /\ out.err = "ok"
        /\ \A u \in Users :
              DatetimesOf(SelectSeq(out.val, LAMBDA r : r.user = u)) = DatetimesOf(Inner(EventsOf(u)))

\* the same, for the calls that return
C8_TrimmingWhenReturned ==
    Returned("classified") =>
        \A u \in Users :
            DatetimesOf(SelectSeq(out.val, LAMBDA r : r.user = u)) = DatetimesOf(Inner(EventsOf(u)))

\* ---- C9 (SpecMetrics) --------------------------------------------------
\* the timeline a metric aggregates has no rows
EmptyTimeline ==
    \/ pc = "count_done" /\ mid.classified = Ok(<<>>)
    \/ pc = "duration_done" /\ (mid.classified = Ok(<<>>) \/ mid.durations = Ok(<<>>))

\* C9: a metric whose classified or duration-annotated timeline has no rows
\* returns normally.
C9_EmptyIsSuccess == EmptyTimeline => out.err = "ok"

\* ---- C11 (SpecDispatch) ------------------------------------------------
Registered(k) == \E i \in 1 .. Len(ALL_FEATURE_FUNCTIONS) : ALL_FEATURE_FUNCTIONS[i] = k

HasUnknownKey == \E i \in 1 .. Len(features) : ~Registered(features[i])

\* C11: when the mapping given to extract_features_screen has a key that is
\* not a registered metric, no metric is ever computed, wherever the key
\* stands in the mapping, and the call ends with an error, not a table.
C11_FailFastOnUnknownKey ==
    (pc \in {"loop", "dispatch_done"} /\ HasUnknownKey) =>
        /\ computed_features = <<>>
        /\ pc = "dispatch_done" => out.err # "ok"

\* ---- C12 (SpecClassify) ------------------------------------------------
\* C12: when two consecutive events of a user have the statuses 0 and then 3,
\* the row of the earlier event has the flag use set to 1 where the
\* classifier assigns the flags.
C12_OffToUnlockedIsUse ==
    pc = "classified" =>
        \A s \in {Sorted0} : \A i \in IntraUserPairs(s) :
            (s[i].screen_status = 0 /\ s[i + 1].screen_status = 3) =>
                \E k \in 1 .. Len(mid) :
                    /\ mid[k].user = s[i].user
                    /\ mid[k].datetime = s[i].datetime
                    /\ mid[k].use = 1

\* ---- C13 (SpecMerge) ---------------------------------------------------
\* the rows of the sorted table s but those that have the same status as the
\* row at the given offset from them (+1: the next row, -1: the row before)
WithoutRepeats(s, offset) ==
    BoolIndex(s, [i \in 1 .. Len(s) |->
                    ~(/\ i + offset \in 1 .. Len(s)
                      /\ s[i].screen_status = s[i + offset].screen_status)])

\* C13 as stated: util_screen drops an event if and only if its status equals
\* the status of the event immediately following it in the sorted table: of
\* two adjacent events of equal status the earlier is dropped, the later kept.
C13_EarlierOfRepeatDropped ==
    Returned("merged") =>
        \A s \in {Sorted0} : out.val.rows = WithoutRepeats(s, 1)

\* C13 as amended: util_screen drops an event if and only if its status
\* equals the status of the event immediately before it in the sorted table:
\* of two adjacent events of equal status the later is dropped, the earlier
\* kept.
C13_LaterOfRepeatDropped ==
    Returned("merged") =>
        \A s \in {Sorted0} : out.val.rows = WithoutRepeats(s, 0 - 1)

\* two readings of status 1 of one device at the times 2 and 4, then a
\* reading of status 0: the reading at 2 and the reading of status 0 are
\* returned
C13_Witness ==
    /\ Returned("merged")
    /\ Sorted0 = <<ScreenRow(<<1, 1>>, 2, 1), ScreenRow(<<1, 1>>, 4, 1), ScreenRow(<<1, 2>>, 2, 0)>>
    /\ out.val.rows = <<ScreenRow(<<1, 1>>, 2, 1), ScreenRow(<<1, 2>>, 2, 0)>>

\* ---- C14 (SpecMerge) ---------------------------------------------------
\* row i of the sorted table s is the first event of its user and device
FirstOfSequence(s, i) ==
    i = 1 \/ s[i].user # s[i - 1].user \/ s[i].device # s[i - 1].device

\* C14: the first event of every user+device sequence is retained, whatever
\* the status of the last event of the sequence before it in the sorted
\* table: it is not flagged as missing and it is a row of the table returned.
C14_FirstOfSequenceRetained ==
    Returned("merged") =>
        \A i \in 1 .. Len(df.rows) :
            FirstOfSequence(df.rows, i) =>
                /\ df.missing[i] = 0
                /\ \E k \in 1 .. Len(out.val.rows) : out.val.rows[k] = df.rows[i]

\* ---- C15 (SpecDurationDevices) -----------------------------------------
\* n is the event of the user of r that follows r in chronological order
NextEventOf(r, n) ==
    /\ n.user = r.user
    /\ n.datetime > r.datetime
    /\ \A i \in 1 .. Len(df0.rows) :
          (df0.rows[i].user = r.user /\ df0.rows[i].datetime > r.datetime) =>
              n.datetime <= df0.rows[i].datetime

\* C15: the duration of every row the duration calculator returns is the
\* datetime of the next event of the same user in chronological order minus
\* the datetime of the row, and is not negative, also for a user with events
\* of more than one device.
C15_DurationToNextEvent ==
    Returned("durations") =>
        \A k \in 1 .. Len(out.val) :
            /\ out.val[k].duration # NaN
            /\ out.val[k].duration[1] >= 0
            /\ \E i \in 1 .. Len(df0.rows) :
                  /\ NextEventOf(out.val[k], df0.rows[i])
                  /\ out.val[k].duration[1] = df0.rows[i].datetime - out.val[k].datetime

\* ---- C16 (SpecPipeline) ------------------------------------------------
\* C16: every row of the table the classifier returns for the table the
\* merger returned has exactly one of the flags on, off, use and na set to 1.
C16_ExactlyOneFlag ==
    (pc = "duration_done" /\ mid.classified.err = "ok") =>
        \A k \in 1 .. Len(mid.classified.val) :
            \A r \in {mid.classified.val[k]} :
                /\ {r.use, r.on, r.na, r.off} \subseteq {0, 1}
                /\ r.use + r.on + r.na + r.off = 1

\* five events of one user with a repeated reading: the merger returns four
\* of them, the classifier the rows of the pairs 23 and 31
C16_Witness ==
    /\ pc = "duration_done"
    /\ [i \in 1 .. Len(df0.rows) |-> df0.rows[i].screen_status] = <<1, 2, 2, 3, 1>>
    /\ \A i \in 1 .. Len(df0.rows) : df0.rows[i].user = 1
    /\ mid.merged.err = "ok" /\ Len(mid.merged.val.rows) = 4
    /\ mid.classified.err = "ok"
    /\ Len(mid.classified.val) = 1
    /\ mid.classified.val[1].na = 1

====
